---------------------------- MODULE Spec2Model ----------------------------
(***************************************************************************)
(* The DataVest dashboard (src/dashboard.py) as a state machine.           *)
(*                                                                         *)
(* The dashboard is a Streamlit script: every change of a widget re-runs   *)
(* the whole script from top to bottom.  The state is the widgets' values  *)
(* and the price file, together with what the last run of the script       *)
(* computed (and the exception that stopped it, if one did).               *)
(*                                                                         *)
(* Numbers.  The script computes in floating point.  The model computes    *)
(* in exact rationals, extended with the IEEE values inf, -inf and nan     *)
(* that pandas' division produces for a zero divisor; rounding error is    *)
(* not modelled.                                                           *)
(***************************************************************************)
EXTENDS Integers, Sequences, FiniteSets

(***************************************************************************)
(* Bounds of the model.                                                    *)
(***************************************************************************)
\* Prices of the price file range over 0..MaxPrice.
MaxPrice == 2
\* The price file holds at most weeks_map["1 month"] + MaxExtraRows rows.
MaxExtraRows == 1
\* The chart's investment is DefaultInvestment or one of 0..MaxChart.
MaxChart == 1
\* The fee calculator's investment ranges over -Margin..1000+Margin: past the
\* lowest and the highest band edge of determine_tier.
Margin == 3

(***************************************************************************)
(* Numbers: rationals in lowest terms with a positive denominator, and     *)
(* the non-finite floating-point values.                                   *)
(***************************************************************************)
\* The operators of this section are functions underneath, so that an
\* argument is evaluated once, however often the body reads it.
Abs(n) == IF n < 0 THEN -n ELSE n

RECURSIVE GCD(_, _)
GCD(a, b) == IF b = 0 THEN a ELSE GCD(b, a % b)

Numbers == [kind : {"fin", "inf", "nan", "none"}, num : Int, den : Int]

RatOf[p \in Int \X Int] ==
    LET g == GCD(Abs(p[1]), Abs(p[2]))
        s == IF p[2] < 0 THEN -1 ELSE 1
    IN  [kind |-> "fin", num |-> (s * p[1]) \div g, den |-> (s * p[2]) \div g]

\* The rational n / d, d # 0.
Rat(n, d) == RatOf[<<n, d>>]

Int2Num(n) == [kind |-> "fin", num |-> n, den |-> 1]
Inf    == [kind |-> "inf",  num |-> 1,  den |-> 0]
NegInf == [kind |-> "inf",  num |-> -1, den |-> 0]
NaN    == [kind |-> "nan",  num |-> 0,  den |-> 0]
\* A name the run never bound (the script stopped, or skipped the branch).
None   == [kind |-> "none", num |-> 0,  den |-> 0]

IsFinite(x) == x.kind = "fin"
Sign(n) == IF n > 0 THEN 1 ELSE IF n < 0 THEN -1 ELSE 0

RMulOf[p \in Numbers \X Numbers] ==
    LET x  == p[1]
        y  == p[2]
        g1 == GCD(Abs(x.num), y.den)
        g2 == GCD(Abs(y.num), x.den)
    IN  Rat((x.num \div g1) * (y.num \div g2), (x.den \div g2) * (y.den \div g1))

\* x * y on finite numbers, cancelling before multiplying.
RMul(x, y) == RMulOf[<<x, y>>]

RAddOf[p \in Numbers \X Numbers] ==
    Rat(p[1].num * p[2].den + p[2].num * p[1].den, p[1].den * p[2].den)
RAdd(x, y) == RAddOf[<<x, y>>]

RSubOf[p \in Numbers \X Numbers] ==
    Rat(p[1].num * p[2].den - p[2].num * p[1].den, p[1].den * p[2].den)
RSub(x, y) == RSubOf[<<x, y>>]

RLessOf[p \in Numbers \X Numbers] == p[1].num * p[2].den < p[2].num * p[1].den
RLess(x, y) == RLessOf[<<x, y>>]

\* x / y on finite numbers, y # 0.
RDivOf[p \in Numbers \X Numbers] == RMul(p[1], Rat(p[2].den, p[2].num))
RDiv(x, y) == RDivOf[<<x, y>>]

\* IEEE multiplication and division, as numpy computes them element-wise:
\* no exception, a zero divisor gives inf, -inf or nan.
FMulOf[p \in Numbers \X Numbers] ==
    LET x == p[1]
        y == p[2]
    IN  IF x.kind = "nan" \/ y.kind = "nan" THEN NaN
        ELSE IF IsFinite(x) /\ IsFinite(y) THEN RMul(x, y)
        ELSE IF x.num = 0 \/ y.num = 0 THEN NaN
        ELSE IF Sign(x.num) * Sign(y.num) > 0 THEN Inf ELSE NegInf
FMul(x, y) == FMulOf[<<x, y>>]

FDivOf[p \in Numbers \X Numbers] ==
    LET x == p[1]
        y == p[2]
    IN  IF x.kind = "nan" \/ y.kind = "nan" THEN NaN
        ELSE IF IsFinite(x) /\ IsFinite(y) THEN
            IF y.num # 0 THEN RDiv(x, y)
            ELSE IF x.num = 0 THEN NaN
            ELSE IF x.num > 0 THEN Inf ELSE NegInf
        ELSE IF x.kind = "inf" /\ y.kind = "inf" THEN NaN
        ELSE IF x.kind = "inf" THEN
            (IF Sign(x.num) * (IF y.num < 0 THEN -1 ELSE 1) > 0 THEN Inf ELSE NegInf)
        ELSE Int2Num(0)
FDiv(x, y) == FDivOf[<<x, y>>]

(***************************************************************************)
(* The price file compare_ret.csv: one row per week, a Gregorian date and  *)
(* one price per competitor, dates strictly increasing.                    *)
(***************************************************************************)
Competitors == {"fundA", "fundB", "fundC"}

IsLeap(y) == (y % 4 = 0 /\ y % 100 # 0) \/ y % 400 = 0

DaysInMonth(y, m) ==
    IF m = 2 THEN (IF IsLeap(y) THEN 29 ELSE 28)
    ELSE IF m \in {4, 6, 9, 11} THEN 30 ELSE 31

NextDay(d) ==
    IF d[3] < DaysInMonth(d[1], d[2]) THEN <<d[1], d[2], d[3] + 1>>
    ELSE IF d[2] < 12 THEN <<d[1], d[2] + 1, 1>>
    ELSE <<d[1] + 1, 1, 1>>

RECURSIVE AddDays(_, _)
AddDays(d, k) == IF k = 0 THEN d ELSE AddDays(NextDay(d), k - 1)

\* The first observation of the files the model reads; the weeks after it
\* cross the turn of the Persian year 1402/1403 (20 March 2024).
FirstObservation == <<2024, 2, 21>>

\* Prices stay, or move up by one a week.
Steps == {0, 1}

\* The file of n weekly rows whose column c starts at start[c] and moves by
\* step a week, modulo MaxPrice + 1.
PriceFile(n, start, step) ==
    [t \in 1..n |->
        [date  |-> AddDays(FirstObservation, 7 * (t - 1)),
         price |-> [c \in Competitors |->
                        (start[c] + ((t - 1) * step)) % (MaxPrice + 1)]]]

(***************************************************************************)
(* Sidebar and data preparation, lines 45-58.                              *)
(***************************************************************************)
DefaultInvestment == 100
Periods == {"1 month", "3 months", "6 months", "1 year", "2 years", "3 years"}

weeks_map ==
    [p \in Periods |->
        CASE p = "1 month"  -> 4
          [] p = "3 months" -> 13
          [] p = "6 months" -> 26
          [] p = "1 year"   -> 52
          [] p = "2 years"  -> 104
          [] p = "3 years"  -> 156]

\* The price files the model reads: up to MaxExtraRows rows more than the
\* shortest period retains.
PriceFiles ==
    {PriceFile(n, start, step) :
        n \in 0..(weeks_map["1 month"] + MaxExtraRows),
        start \in [Competitors -> 0..MaxPrice],
        step \in Steps}

\* million * 1_00_000 * 10 (lines 46 and 158).
ToToman(million) == million * 100000 * 10

\* DataFrame.head(n) in the place of tail(n): the first n rows.
head(frame, n) ==
    IF n >= Len(frame) THEN frame ELSE SubSeq(frame, 1, n)

\* DataFrame.tail(n): the last n rows, all of them when there are fewer.
tail(frame, n) ==
    IF n >= Len(frame) THEN frame
    ELSE SubSeq(frame, Len(frame) - n + 1, Len(frame))

\* df_period / df_period.iloc[0] * chart_investment, on a frame with a first
\* row: every column divided by its first retained value, then scaled.
Normalize(frame, investment) ==
    [t \in 1..Len(frame) |->
        [index |-> frame[t].date,
         value |-> [c \in Competitors |->
                        FMul(FDiv(Int2Num(frame[t].price[c]),
                                  Int2Num(frame[1].price[c])),
                             Int2Num(investment))]]]

\* jdatetime.date.fromgregorian(date).strftime('%Y/%m/%d'): the Persian
\* (Shamsi) date of a Gregorian date after 1600, as <<year, month, day>>; the
\* label is these three numbers zero-padded, so labels order as the triples.
ToShamsi(g) ==
    LET gy   == g[1] - 1600
        gy2  == IF g[2] > 2 THEN gy + 1 ELSE gy
        gdm  == <<0, 31, 59, 90, 120, 151, 181, 212, 243, 273, 304, 334>>
        days == (365 * gy) + ((gy2 + 3) \div 4) - ((gy2 + 99) \div 100)
                  + ((gy2 + 399) \div 400) - 80 + g[3] + gdm[g[2]]
        d1   == days % 12053
        jy1  == 979 + (33 * (days \div 12053)) + (4 * (d1 \div 1461))
        d2   == d1 % 1461
        jy   == IF d2 > 365 THEN jy1 + ((d2 - 1) \div 365) ELSE jy1
        d3   == IF d2 > 365 THEN (d2 - 1) % 365 ELSE d2
    IN  IF d3 < 186 THEN <<jy, 1 + (d3 \div 31), 1 + (d3 % 31)>>
        ELSE <<jy, 7 + ((d3 - 186) \div 30), 1 + ((d3 - 186) % 30)>>

\* wealth_df.index = shamsi_dates: the index replaced, row by row.
Relabel(frame) ==
    [t \in 1..Len(frame) |->
        [index |-> ToShamsi(frame[t].index), value |-> frame[t].value]]

(***************************************************************************)
(* Tab 1, line 100: df_period.rank(axis=1, ascending=False).  pandas ranks *)
(* with method='average' by default: a value's rank is the mean of the     *)
(* positions its ties occupy in the descending order of the row.           *)
(***************************************************************************)
\* rank(axis=1) without ascending=False: rank 1 is the lowest price.
RankRowAscending(price) ==
    [c \in Competitors |->
        LET below == Cardinality({d \in Competitors : price[d] < price[c]})
            tied  == Cardinality({d \in Competitors : price[d] = price[c]})
        IN  Rat(2 * below + tied + 1, 2)]

RankRow(price) ==
    [c \in Competitors |->
        LET above == Cardinality({d \in Competitors : price[d] > price[c]})
            tied  == Cardinality({d \in Competitors : price[d] = price[c]})
        IN  Rat(2 * above + tied + 1, 2)]

Rank(frame) ==
    [t \in 1..Len(frame) |->
        [index |-> frame[t].date, rank |-> RankRow(frame[t].price)]]

\* Tab 3, line 151: wealth_df.round(0).astype(int) raises on inf and nan.
HasNonFinite(frame) ==
    \E t \in 1..Len(frame) : \E c \in Competitors : ~IsFinite(frame[t].value[c])

(***************************************************************************)
(* Fee calculator, lines 14-33 and 157-196.                                *)
(***************************************************************************)
Horizons == {"3 months", "6 months", "9 months", "1 year"}
Tiers == {"10-50", "50-250", "250-500", "500-1000", ">1000"}

\* A rate written with one decimal, given in tenths: Tenths(18) is 1.8.
Tenths(n) == Rat(n, 10)

fee_matrix ==
    [h \in Horizons |->
        CASE h = "3 months" ->
                [t \in Tiers |->
                    CASE t = "10-50" -> Tenths(20) [] t = "50-250" -> Tenths(18)
                      [] t = "250-500" -> Tenths(15) [] t = "500-1000" -> Tenths(12)
                      [] t = ">1000" -> Tenths(10)]
          [] h = "6 months" ->
                [t \in Tiers |->
                    CASE t = "10-50" -> Tenths(25) [] t = "50-250" -> Tenths(23)
                      [] t = "250-500" -> Tenths(22) [] t = "500-1000" -> Tenths(20)
                      [] t = ">1000" -> Tenths(18)]
          [] h = "9 months" ->
                [t \in Tiers |->
                    CASE t = "10-50" -> Tenths(30) [] t = "50-250" -> Tenths(28)
                      [] t = "250-500" -> Tenths(27) [] t = "500-1000" -> Tenths(26)
                      [] t = ">1000" -> Tenths(25)]
          [] h = "1 year" ->
                [t \in Tiers |->
                    CASE t = "10-50" -> Tenths(35) [] t = "50-250" -> Tenths(33)
                      [] t = "250-500" -> Tenths(31) [] t = "500-1000" -> Tenths(30)
                      [] t = ">1000" -> Tenths(29)]]

\* The matrix with one entry mistyped: 2.8 for 2.7.
get_fee_rate_mistyped(t, horizon) ==
    IF horizon = "9 months" /\ t = "250-500" THEN Tenths(28)
    ELSE fee_matrix[horizon][t]

get_fee_rate_by_tier(t, horizon) == fee_matrix[horizon][t]

\* The bands with < for <=: an amount on a band's edge moves up a tier.
determine_tier_exclusive(investment_million) ==
    IF investment_million < 50 THEN "10-50"
    ELSE IF investment_million < 250 THEN "50-250"
    ELSE IF investment_million < 500 THEN "250-500"
    ELSE IF investment_million < 1000 THEN "500-1000"
    ELSE ">1000"

determine_tier(investment_million) ==
    IF investment_million <= 50 THEN "10-50"
    ELSE IF investment_million <= 250 THEN "50-250"
    ELSE IF investment_million <= 500 THEN "250-500"
    ELSE IF investment_million <= 1000 THEN "500-1000"
    ELSE ">1000"

\* Lines 164-169 with "9 months" left out of the list.
InstallmentsNoNineMonths(t, horizon) ==
    IF horizon \in {"6 months", "1 year"}
    THEN IF t = "250-500" THEN 2
         ELSE IF t \in {"500-1000", ">1000"} THEN 3
         ELSE 1
    ELSE 1

\* Lines 164-169.
Installments(t, horizon) ==
    IF horizon \in {"6 months", "9 months", "1 year"}
    THEN IF t = "250-500" THEN 2
         ELSE IF t \in {"500-1000", ">1000"} THEN 3
         ELSE 1
    ELSE 1

\* Line 171: fee_investment * base_rate / 100 (the division done first, to
\* keep the intermediate value small; the numbers are exact).
FeeRial(fee_investment, rate) ==
    RMul(Int2Num(fee_investment), RDiv(rate, Int2Num(100)))

\* Lines 178-180 with the surcharge forgotten.
EachWithoutSurcharge(fee, n) == RDiv(fee, Int2Num(n))

\* Lines 178-180: the instalment, surcharge included.
Each(fee, n) ==
    LET surcharge == RMul(fee, Rat(5, 100))
        total_with_surcharge == RAdd(fee, surcharge)
    IN  RDiv(total_with_surcharge, Int2Num(n))

\* The map with a year counted as one.
months_map_year_as_one ==
    [h \in Horizons |->
        CASE h = "3 months" -> 3 [] h = "6 months" -> 6
          [] h = "9 months" -> 9 [] h = "1 year" -> 1]

months_map ==
    [h \in Horizons |->
        CASE h = "3 months" -> 3 [] h = "6 months" -> 6
          [] h = "9 months" -> 9 [] h = "1 year" -> 12]

\* Lines 186 and 188: (rate / 100) * fee_investment / months.
MonthlyFee(rate, fee_investment, months) ==
    RDiv(RMul(RDiv(rate, Int2Num(100)), Int2Num(fee_investment)), Int2Num(months))

\* Line 191.
Saving(reference, current) == RSub(reference, current)

\* Line 192, for a reference fee that is not zero.
SavingPercent(sav, reference) == RMul(RDiv(sav, reference), Int2Num(100))

(***************************************************************************)
(* One run of the script.                                                  *)
(***************************************************************************)
\* Lines 45-151: data preparation and the first three tabs.  An empty frame
\* stops the script at line 54 (iloc[0] raises IndexError); a wealth table
\* with inf or nan is charted by tab 1 and stops the script at line 151.
SeriesRun(million, p, frame) ==
    LET retained == tail(frame, weeks_map[p])
    IN  IF Len(retained) = 0
        THEN [exception |-> "IndexError", df_period |-> retained,
              wealth_df |-> <<>>, ranking |-> <<>>]
        ELSE LET wealth == Relabel(Normalize(retained, ToToman(million)))
             IN  [exception |-> IF HasNonFinite(wealth)
                                THEN "IntCastingNaNError" ELSE "none",
                  df_period |-> retained,
                  wealth_df |-> wealth,
                  ranking   |-> Rank(retained)]

\* What tab 4 leaves when the script stopped before it.
NoFee ==
    [exception |-> "none", tier |-> "none", base_rate |-> None,
     num_installments |-> 0, fee_rial |-> None, each |-> None,
     reference_monthly_fee |-> None, current_monthly_fee |-> None,
     saving |-> None, saving_percent |-> None]

\* Lines 157-196.  Python's float division raises ZeroDivisionError at line
\* 192 when the reference fee is zero.
FeeRun(million, horizon) ==
    LET fee_investment == ToToman(million)
        t         == determine_tier(million)
        rate      == get_fee_rate_by_tier(t, horizon)
        n         == Installments(t, horizon)
        fee       == FeeRial(fee_investment, rate)
        reference == MonthlyFee(get_fee_rate_by_tier(t, "3 months"),
                                fee_investment, 3)
        current   == MonthlyFee(rate, fee_investment, months_map[horizon])
        compared  == horizon # "3 months"
        sav       == Saving(reference, current)
    IN  [exception |-> IF compared /\ reference.num = 0
                       THEN "ZeroDivisionError" ELSE "none",
         tier |-> t,
         base_rate |-> rate,
         num_installments |-> n,
         fee_rial |-> fee,
         each |-> IF n > 1 THEN Each(fee, n) ELSE None,
         reference_monthly_fee |-> reference,
         current_monthly_fee |-> current,
         saving |-> IF compared THEN sav ELSE None,
         saving_percent |-> IF compared /\ reference.num # 0
                            THEN SavingPercent(sav, reference) ELSE None]

VARIABLES
    \* the inputs: the sidebar's widgets, the price file, tab 4's widgets
    chart_investment_million, period, df, fee_investment_million, fee_horizon,
    \* the exception that stopped the last run, or "none"
    exception,
    \* what the last run computed
    df_period, wealth_df, ranking,
    tier, base_rate, num_installments, fee_rial, each,
    reference_monthly_fee, current_monthly_fee, saving, saving_percent

inputs == <<chart_investment_million, period, df, fee_investment_million, fee_horizon>>
outputs == <<exception, df_period, wealth_df, ranking,
             tier, base_rate, num_installments, fee_rial, each,
             reference_monthly_fee, current_monthly_fee, saving, saving_percent>>
vars == <<inputs, outputs>>

\* The whole script on given inputs: tab 4 runs only if nothing before it
\* raised.
Script(chart_million, p, frame, fee_million, horizon) ==
    LET s == SeriesRun(chart_million, p, frame)
    IN  IF s.exception = "none"
        THEN [series |-> s, fee |-> FeeRun(fee_million, horizon)]
        ELSE [series |-> s, fee |-> [NoFee EXCEPT !.exception = s.exception]]

\* The run of the whole script on the inputs of the next state.
Rerun ==
    \E run \in {Script(chart_investment_million', period', df',
                        fee_investment_million', fee_horizon')} :
        /\ exception' = run.fee.exception
        /\ df_period' = run.series.df_period
        /\ wealth_df' = run.series.wealth_df
        /\ ranking' = run.series.ranking
        /\ tier' = run.fee.tier
        /\ base_rate' = run.fee.base_rate
        /\ num_installments' = run.fee.num_installments
        /\ fee_rial' = run.fee.fee_rial
        /\ each' = run.fee.each
        /\ reference_monthly_fee' = run.fee.reference_monthly_fee
        /\ current_monthly_fee' = run.fee.current_monthly_fee
        /\ saving' = run.fee.saving
        /\ saving_percent' = run.fee.saving_percent

ChartAmounts == (0..MaxChart) \cup {DefaultInvestment}
FeeAmounts == (-Margin)..(1000 + Margin)

\* The first run: the widgets hold their defaults.
FirstRun(files) ==
    /\ df \in files
    /\ chart_investment_million = DefaultInvestment
    /\ period = "1 month"
    /\ fee_investment_million = DefaultInvestment
    /\ fee_horizon = "3 months"
    /\ \E run \in {Script(chart_investment_million, period, df,
                           fee_investment_million, fee_horizon)} :
        /\ exception = run.fee.exception
        /\ df_period = run.series.df_period
        /\ wealth_df = run.series.wealth_df
        /\ ranking = run.series.ranking
        /\ tier = run.fee.tier
        /\ base_rate = run.fee.base_rate
        /\ num_installments = run.fee.num_installments
        /\ fee_rial = run.fee.fee_rial
        /\ each = run.fee.each
        /\ reference_monthly_fee = run.fee.reference_monthly_fee
        /\ current_monthly_fee = run.fee.current_monthly_fee
        /\ saving = run.fee.saving
        /\ saving_percent = run.fee.saving_percent

\* Line 45: the sidebar's number input changes.
ChangeChartInvestment ==
    \E v \in ChartAmounts :
        /\ chart_investment_million' = v
        /\ UNCHANGED <<period, df, fee_investment_million, fee_horizon>>
        /\ Rerun

\* Line 47: the sidebar's select box changes.
ChangePeriod ==
    \E p \in Periods :
        /\ period' = p
        /\ UNCHANGED <<chart_investment_million, df, fee_investment_million, fee_horizon>>
        /\ Rerun

\* Tab 4's widgets exist only if the last run reached line 157.
Tab4Rendered == exception \notin {"IndexError", "IntCastingNaNError"}

\* Line 157: tab 4's number input changes.  The input holds an integer and
\* steps by one; a typed amount is reached by such steps.
ChangeFeeInvestment ==
    \E v \in {fee_investment_million - 1, fee_investment_million + 1} :
        /\ Tab4Rendered
        /\ v \in FeeAmounts
        /\ fee_investment_million' = v
        /\ UNCHANGED <<chart_investment_million, period, df, fee_horizon>>
        /\ Rerun

\* Line 160: tab 4's select box changes.
ChangeFeeHorizon ==
    \E h \in Horizons :
        /\ Tab4Rendered
        /\ fee_horizon' = h
        /\ UNCHANGED <<chart_investment_million, period, df, fee_investment_million>>
        /\ Rerun

\* The dashboard over every price file, the fee calculator left alone.
InitSeries == FirstRun(PriceFiles)
NextSeries == ChangeChartInvestment \/ ChangePeriod
SpecSeries == InitSeries /\ [][NextSeries]_vars

\* The fee calculator over one price file whose wealth table is finite.
FeeFiles ==
    {PriceFile(weeks_map["1 month"] + 1,
               [c \in Competitors |-> 1], 0)}
InitFee == FirstRun(FeeFiles)
NextFee == ChangeFeeInvestment \/ ChangeFeeHorizon
SpecFee == InitFee /\ [][NextFee]_vars

(***************************************************************************)
(* The fee calculator's claims, under SpecFee.                             *)
(***************************************************************************)
\* The table of rates of the specification, section 4.3, in tenths of a
\* percent: a row per tier (<=50, <=250, <=500, <=1000, >1000), a column per
\* horizon (3, 6, 9, 12 months).
RateTable ==
    << <<20, 25, 30, 35>>,
       <<18, 23, 28, 33>>,
       <<15, 22, 27, 31>>,
       <<12, 20, 26, 30>>,
       <<10, 18, 25, 29>> >>

TableRow(t) ==
    CASE t = "10-50" -> 1 [] t = "50-250" -> 2 [] t = "250-500" -> 3
      [] t = "500-1000" -> 4 [] t = ">1000" -> 5

TableColumn(h) ==
    CASE h = "3 months" -> 1 [] h = "6 months" -> 2
      [] h = "9 months" -> 3 [] h = "1 year" -> 4

MonthsIn(h) ==
    CASE h = "3 months" -> 3 [] h = "6 months" -> 6
      [] h = "9 months" -> 9 [] h = "1 year" -> 12

\* The last run reached tab 4 and computed a quote.
Quoted == tier \in Tiers

\* C1: for every amount and horizon, the rate the calculator uses is the
\* entry of the table of section 4.3 for the amount's tier and the horizon.
C1_RateMatchesTable ==
    Quoted =>
        base_rate = Rat(RateTable[TableRow(tier)][TableColumn(fee_horizon)], 10)

\* 600 million for a year: tier <=1000, 3.0 percent.
C1_Witness ==
    /\ fee_investment_million = 600
    /\ fee_horizon = "1 year"
    /\ tier = "500-1000"
    /\ base_rate = Int2Num(3)

\* C2: every amount falls in exactly one tier, the bands' upper edges
\* inclusive: <= 50, (50, 250], (250, 500], (500, 1000], > 1000.
C2_TierBands ==
    LET a == fee_investment_million
    IN  Quoted =>
            /\ (tier = "10-50")    <=> (a <= 50)
            /\ (tier = "50-250")   <=> (50 < a /\ a <= 250)
            /\ (tier = "250-500")  <=> (250 < a /\ a <= 500)
            /\ (tier = "500-1000") <=> (500 < a /\ a <= 1000)
            /\ (tier = ">1000")    <=> (a > 1000)

\* An amount on a band's edge: exactly 50 is in the tier <=50.
C2_Witness == fee_investment_million = 50 /\ tier = "10-50"

\* C3: one instalment for 3 months whatever the tier; for 6, 9 and 12
\* months one for the tiers <=50 and <=250, two for <=500, three for <=1000
\* and >1000; no other count.
C3_InstallmentCount ==
    Quoted =>
        /\ num_installments \in {1, 2, 3}
        /\ fee_horizon = "3 months" => num_installments = 1
        /\ fee_horizon \in {"6 months", "9 months", "1 year"} =>
              /\ tier \in {"10-50", "50-250"} => num_installments = 1
              /\ tier = "250-500" => num_installments = 2
              /\ tier \in {"500-1000", ">1000"} => num_installments = 3

\* Nine months in the tier <=500: two instalments.
C3_Witness ==
    /\ fee_horizon = "9 months"
    /\ tier = "250-500"
    /\ num_installments = 2

\* C4: the total fee is amount * rate / 100; with more than one instalment,
\* instalment * count = total fee * 1.05; with one instalment there is no
\* instalment amount.
C4_SurchargeLaw ==
    Quoted =>
        /\ IsFinite(fee_rial)
        /\ fee_investment_million = 0 => fee_rial = Int2Num(0)
        /\ fee_investment_million # 0 =>
              RDiv(fee_rial, Int2Num(ToToman(fee_investment_million)))
                = RDiv(base_rate, Int2Num(100))
        /\ num_installments > 1 =>
              /\ IsFinite(each)
              /\ RMul(each, Int2Num(num_installments)) = RMul(fee_rial, Rat(105, 100))
        /\ num_installments = 1 => each = None

\* 600 million for a year: a fee of 18 million, three instalments of 6.3.
C4_Witness ==
    /\ fee_investment_million = 600
    /\ fee_horizon = "1 year"
    /\ fee_rial = Int2Num(18000000)
    /\ num_installments = 3
    /\ each = Int2Num(6300000)

\* C5: for an amount <= 0 the calculation fails with InvalidInvestmentError
\* and produces no tier, rate, fee or instalment plan.
C5_NonPositiveRejected ==
    fee_investment_million <= 0 =>
        /\ exception = "InvalidInvestmentError"
        /\ tier = "none"
        /\ base_rate = None
        /\ fee_rial = None
        /\ num_installments = 0
        /\ each = None

\* The saving in percent as the rates alone give it:
\* (1 - (rate / months) / (rate of 3 months / 3)) * 100.
PercentByRates(t, h) ==
    LET r3 == RateTable[TableRow(t)][1]
        r  == RateTable[TableRow(t)][TableColumn(h)]
    IN  Rat(100 * (r3 * MonthsIn(h) - r * 3), r3 * MonthsIn(h))

\* C10: for a positive amount and a horizon other than 3 months, the fee a
\* month (fee / months) is strictly below that of the tier's 3-month plan
\* (its fee / 3), the saving and its percentage are strictly positive, and
\* the percentage is a function of the tier and the horizon alone.
C10_MonthlySaving ==
    (Quoted /\ fee_investment_million > 0 /\ fee_horizon # "3 months") =>
        /\ RMul(current_monthly_fee, Int2Num(MonthsIn(fee_horizon))) = fee_rial
        /\ RDiv(RMul(reference_monthly_fee, Int2Num(3)),
                Int2Num(ToToman(fee_investment_million)))
              = Rat(RateTable[TableRow(tier)][1], 1000)
        /\ RLess(current_monthly_fee, reference_monthly_fee)
        /\ IsFinite(saving) /\ saving.num > 0
        /\ saving = RSub(reference_monthly_fee, current_monthly_fee)
        /\ IsFinite(saving_percent) /\ saving_percent.num > 0
        /\ saving_percent = PercentByRates(tier, fee_horizon)

\* 100 million for a year: 275,000 a month against 600,000, 54.2 percent less.
C10_Witness ==
    /\ fee_investment_million = 100
    /\ fee_horizon = "1 year"
    /\ current_monthly_fee = Int2Num(275000)
    /\ reference_monthly_fee = Int2Num(600000)
    /\ saving_percent = Rat(325, 6)

(***************************************************************************)
(* The time series' claims, under SpecSeries.                              *)
(***************************************************************************)
\* The chart's investment in Toman.
chart_investment == ToToman(chart_investment_million)

\* C6: whenever a wealth table is produced, its first row is the investment
\* in every column, and every row is price / first retained price *
\* investment.
C6_FirstRowIsInvestment ==
    \A t \in 1..Len(wealth_df) : \A c \in Competitors :
        LET w == wealth_df[t].value[c]
        IN  /\ IsFinite(w)
            /\ t = 1 => w = Int2Num(chart_investment)
            /\ w.num * df_period[1].price[c]
                 = df_period[t].price[c] * chart_investment * w.den

\* The normalizer failed: an exception, and no wealth table.
FailedExplicitly == exception # "none" /\ wealth_df = <<>>

\* C7: the normalizer fails explicitly on a series with no row and on a
\* first retained value of zero, and never returns a table holding a value
\* coerced to nan or infinity.
C7_ExplicitFailure ==
    /\ Len(df_period) = 0 => FailedExplicitly
    /\ (Len(df_period) > 0 /\ \E c \in Competitors : df_period[1].price[c] = 0)
          => FailedExplicitly
    /\ \A t \in 1..Len(wealth_df) : \A c \in Competitors :
          IsFinite(wealth_df[t].value[c])

\* The positions the competitors tied with c jointly occupy in the row's
\* descending order.
Positions(price, c) ==
    LET above == Cardinality({d \in Competitors : price[d] > price[c]})
        tied  == Cardinality({d \in Competitors : price[d] = price[c]})
    IN  (above + 1)..(above + tied)

RECURSIVE SumOf(_)
SumOf(S) == IF S = {} THEN 0 ELSE LET x == CHOOSE y \in S : TRUE IN x + SumOf(S \ {x})

\* C8: in every retained row a higher price has a better (smaller) rank,
\* and a competitor's rank is the mean of the positions it and its ties
\* jointly occupy in the descending order: its own position when untied.
C8_AverageRank ==
    /\ exception # "IndexError" => Len(ranking) = Len(df_period)
    /\ \A t \in 1..Len(ranking) : \A c \in Competitors :
          LET price == df_period[t].price
              r     == ranking[t].rank
              pos   == Positions(price, c)
          IN  /\ r[c].num * Cardinality(pos) = SumOf(pos) * r[c].den
              /\ \A d \in Competitors :
                    /\ price[d] > price[c] => RLess(r[d], r[c])
                    /\ price[d] = price[c] => r[d] = r[c]

\* Two competitors tied for best, nobody else tied with them: 1.5 each, and
\* the third, untied, third.
C8_Witness ==
    \E t \in 1..Len(ranking) :
        \E c, d, e \in Competitors :
            /\ c # d
            /\ df_period[t].price[c] = df_period[t].price[d]
            /\ df_period[t].price[e] < df_period[t].price[c]
            /\ ranking[t].rank[c] = Rat(3, 2)
            /\ ranking[t].rank[d] = Rat(3, 2)
            /\ ranking[t].rank[e] = Int2Num(3)

\* The order of the labels 'YYYY/MM/DD'.
LabelBefore(a, b) ==
    \/ a[1] < b[1]
    \/ a[1] = b[1] /\ a[2] < b[2]
    \/ a[1] = b[1] /\ a[2] = b[2] /\ a[3] < b[3]

\* C9: for a window w no longer than the file, the retained rows are the
\* file's last w rows in their order; the wealth table and the rank table
\* have these w rows and the file's columns; the relabelled wealth table has
\* the values of the normalised one, row by row, and its labels ascend.
C9_LastRowsInOrder ==
    LET n == Len(df)
        w == weeks_map[period]
    IN  w <= n =>
            /\ Len(df_period) = w /\ Len(wealth_df) = w /\ Len(ranking) = w
            /\ \A i \in 1..w :
                  /\ df_period[i] = df[n - w + i]
                  /\ ranking[i].index = df[n - w + i].date
                  /\ DOMAIN ranking[i].rank = Competitors
                  /\ DOMAIN wealth_df[i].value = Competitors
                  /\ wealth_df[i].value
                       = Normalize(df_period, chart_investment)[i].value
            /\ \A i, j \in 1..w :
                  i < j => LabelBefore(wealth_df[i].index, wealth_df[j].index)

\* A file one row longer than the window: its first row is dropped, and the
\* rows kept run from 9 Esfand 1402 to 1 Farvardin 1403.
C9_Witness ==
    /\ Len(df) = weeks_map[period] + 1
    /\ Len(wealth_df) = weeks_map[period]
    /\ df_period[1] = df[2]
    /\ wealth_df[1].index = <<1402, 12, 9>>
    /\ wealth_df[Len(wealth_df)].index = <<1403, 1, 1>>

=============================================================================
